---------------------------- MODULE Spec2Model ----------------------------
(***************************************************************************)
(* A model of qftool (src/qftool.go): the QuickFeather SPI flash tool.     *)
(* One invocation of the program is one behaviour of Spec: main opens the  *)
(* transport, resets and identifies the flash, and runs one operation.     *)
(* Every spi() call of the program is one step. SpecAPI calls QF.Write and *)
(* QF.Read directly on an open session with arguments main never passes.   *)
(***************************************************************************)
EXTENDS Integers, Sequences, FiniteSets, TLC

(***************************************************************************)
(* Program constants.                                                      *)
(***************************************************************************)
romSize == 2097152
SectorSize == 4096
SectorMask == 4095
ProgChunk == 8
ReadChunk == 16
SpiLimit == 16
flashWIP == 1
MetaLen == 12
PresentWritten == 3
PresentEmpty == 255
TypeM4 == 1
TypeFFE == 2
TypeFPGA == 3
SubTypeBoot == 1
SubTypeApp == 2
DefaultProtect == 262144
DefaultAddr == 524288

(***************************************************************************)
(* Bounds of the model.                                                    *)
(***************************************************************************)
\* polls of the status register one await makes before its deadline passes
MaxPolls == 1
\* longest byte count the direct Read calls of SpecAPI ask for
MaxReadLen == 35
\* reads of the transport in a row that return no byte and no error, as far
\* as they are counted
MaxIdleReads == 1

(***************************************************************************)
(* Bytes and words.                                                        *)
(***************************************************************************)
Max(S) == CHOOSE x \in S : \A y \in S : y <= x

RECURSIVE BitAnd(_, _, _)
BitAnd(x, y, bits) ==
  IF bits = 0 THEN 0
  ELSE (IF x % 2 = 1 /\ y % 2 = 1 THEN 1 ELSE 0) + 2 * BitAnd(x \div 2, y \div 2, bits - 1)

RECURSIVE BitXor(_, _, _)
BitXor(x, y, bits) ==
  IF bits = 0 THEN 0
  ELSE (((x % 2) + (y % 2)) % 2) + 2 * BitXor(x \div 2, y \div 2, bits - 1)

\* x & m for a mask m = 2^k - 1, on Go's two's complement ints
Low(x, m) == x % (m + 1)

\* byte((x >> s) & 0xFF)
ByteOf(x, shift) == (x \div shift) % 256

\* A uint32 is the pair << high 16 bits, low 16 bits >>: the model checker's
\* integers are 32 bits wide and signed.
U32(n) == << (n \div 65536) % 65536, n % 65536 >>
AllOnes == << 65535, 65535 >>

\* the uint32 is below 2^31, and then its value as an int
U32Fits(x) == x[1] < 32768
U32Int(x) == x[1] * 65536 + x[2]

\* the little-endian bytes of a uint32
LE32(x) == << x[2] % 256, x[2] \div 256, x[1] % 256, x[1] \div 256 >>

\* the uint32 that four little-endian bytes hold
FromLE32(s, i) == << s[i + 2] + 256 * s[i + 3], s[i] + 256 * s[i + 1] >>

(***************************************************************************)
(* Byte arrays are kept run-length encoded: a function from the indices    *)
(* where the value changes to the value that starts there. The encoding is *)
(* exact; it keeps 4096-byte sectors and 2 MiB of flash small in a state.  *)
(***************************************************************************)
RunAt(m, a) == m[Max({b \in DOMAIN m : b <= a})]

\* the new value of an element that held old: 0xff after an erase ("fill"),
\* old & s[i] after a program ("prog"), s[i] when stored ("put"), old + 1 when
\* counted ("inc")
RunVal(kind, s, i, old) ==
  CASE kind = "fill" -> 255
    [] kind = "prog" -> BitAnd(old, s[i], 8)
    [] kind = "put"  -> s[i]
    [] kind = "inc"  -> old + 1

\* the runs of the array that is changed by kind (with the values s, from lo
\* on) on lo..hi-1 and is m elsewhere, where pts holds every index of lo..hi at
\* which the new values may change
RunSet(m, lo, hi, pts, kind, s, size) ==
  LET val(a) == IF lo <= a /\ a < hi
                THEN RunVal(kind, s, a - lo + 1, RunAt(m, a))
                ELSE RunAt(m, a)
      cand == {b \in DOMAIN m \cup pts \cup {lo, hi} : 0 <= b /\ b < size}
      keep == {b \in cand : b = 0 \/ val(b) # val(b - 1)}
  IN  [b \in keep |-> val(b)]

\* the maximal intervals <<lo, hi>> of 0..size-1 on which m has a value in vals
RunsOf(m, vals, size) ==
  LET starts == {b \in DOMAIN m : m[b] \in vals /\ (b = 0 \/ RunAt(m, b - 1) \notin vals)}
      stop(b) == LET later == {c \in DOMAIN m : c > b /\ m[c] \notin vals}
                 IN  IF later = {} THEN size ELSE CHOOSE c \in later : \A e \in later : c <= e
  IN  {<<b, stop(b)>> : b \in starts}

(***************************************************************************)
(* A []byte: its length and its run-length encoded content.                *)
(***************************************************************************)
Bytes(s) ==
  [len |-> Len(s),
   at  |-> [i \in {j \in 0..(Len(s) - 1) : j = 0 \/ s[j + 1] # s[j]} |-> s[i + 1]]]

\* n bytes: first, then n-1 times rest
Fill(n, first, rest) ==
  [len |-> n,
   at  |-> [i \in {j \in {0, 1} : j < n /\ (j = 0 \/ first # rest)} |-> IF i = 0 THEN first ELSE rest]]

ByteAt(data, i) == RunAt(data.at, i)

\* data[lo:hi] as a sequence
Slice(data, lo, hi) == [i \in 1..(hi - lo) |-> ByteAt(data, lo + i - 1)]

\* data[lo:]
SliceFrom(data, lo) ==
  [len |-> data.len - lo,
   at  |-> [i \in {j \in 0..(data.len - lo - 1) : j = 0 \/ ByteAt(data, lo + j) # ByteAt(data, lo + j - 1)}
              |-> ByteAt(data, lo + i)]]

\* a faulty variant: the padding is zeroes
PaddedZero(data) ==
  IF Low(data.len, SectorMask) # 0
  THEN LET extend == SectorSize - Low(data.len, SectorMask)
       IN  [len |-> data.len + extend,
            at  |-> IF data.len > 0 /\ ByteAt(data, data.len - 1) = 0
                    THEN data.at
                    ELSE [i \in DOMAIN data.at \cup {data.len} |->
                            IF i = data.len THEN 0 ELSE data.at[i]]]
  ELSE data

\* data extended with 0xff up to the next multiple of the sector size
Padded(data) ==
  IF Low(data.len, SectorMask) # 0
  THEN LET extend == SectorSize - Low(data.len, SectorMask)
       IN  [len |-> data.len + extend,
            at  |-> IF data.len > 0 /\ ByteAt(data, data.len - 1) = 255
                    THEN data.at
                    ELSE [i \in DOMAIN data.at \cup {data.len} |->
                            IF i = data.len THEN 255 ELSE data.at[i]]]
  ELSE data

(***************************************************************************)
(* The layout map of the flash and the metadata record of a section.       *)
(***************************************************************************)
sections ==
  << [name |-> "bootloader", base |-> 0,      limit |-> 65536,  meta |-> 126976,
      image |-> TypeM4,   purpose |-> SubTypeBoot],
     [name |-> "bootfpga",   base |-> 131072, limit |-> 262144, meta |-> 65536,
      image |-> TypeFPGA, purpose |-> SubTypeBoot],
     [name |-> "appfpga",    base |-> 262144, limit |-> 393216, meta |-> 69632,
      image |-> TypeFPGA, purpose |-> SubTypeApp],
     [name |-> "appffe",     base |-> 393216, limit |-> 524288, meta |-> 73728,
      image |-> TypeFFE,  purpose |-> SubTypeApp],
     [name |-> "app",        base |-> 524288, limit |-> 974848, meta |-> 77824,
      image |-> TypeM4,   purpose |-> SubTypeApp] >>

NoSection == [name |-> "", base |-> 0, limit |-> 0, meta |-> 0, image |-> 0, purpose |-> 0]

\* secByName finds the section, or ends the program (found = FALSE)
secByName(name) ==
  LET hit == {i \in 1..Len(sections) : sections[i].name = name}
  IN  IF hit = {} THEN [found |-> FALSE, sec |-> NoSection]
      ELSE [found |-> TRUE, sec |-> sections[CHOOSE i \in hit : \A j \in hit : i <= j]]

\* binary.Write(buf, binary.LittleEndian, m)
EncodeMeta(m) ==
  LE32(m.CRC) \o LE32(m.Size) \o << m.Written, m.Image, m.Purpose, m.Reserved >>

\* binary.Read(bytes.NewReader(b), binary.LittleEndian, &decoded)
DecodeMeta(b) ==
  [CRC |-> FromLE32(b, 1), Size |-> FromLE32(b, 5),
   Written |-> b[9], Image |-> b[10], Purpose |-> b[11], Reserved |-> b[12]]

\* a faulty variant: the record of a disabled section still says written
DisabledMetaPresent(sec) ==
  [CRC |-> AllOnes, Size |-> AllOnes, Written |-> PresentWritten,
   Image |-> sec.image, Purpose |-> sec.purpose, Reserved |-> 255]

DisabledMeta(sec) ==
  [CRC |-> AllOnes, Size |-> AllOnes, Written |-> PresentEmpty,
   Image |-> sec.image, Purpose |-> sec.purpose, Reserved |-> 255]

(***************************************************************************)
(* xcrc32: the CRC of gdb's remote protocol (libiberty/crc32.c): polynomial *)
(* 0x04c11db7, most significant bit first, initial value 0xffffffff, no     *)
(* final inversion.                                                         *)
(***************************************************************************)
CrcPoly == 79764919

\* c << 1, and the polynomial folded in when the bit shifted out was set
RECURSIVE CrcShift(_, _)
CrcShift(c, k) ==
  IF k = 0 THEN c
  ELSE LET shifted == << (c[1] * 2 + c[2] \div 32768) % 65536, (c[2] * 2) % 65536 >>
           poly    == U32(CrcPoly)
       IN  CrcShift(IF c[1] >= 32768
                    THEN << BitXor(shifted[1], poly[1], 16), BitXor(shifted[2], poly[2], 16) >>
                    ELSE shifted, k - 1)

\* the CRC c carried over one more byte
CrcByte(c, b) == CrcShift(<< BitXor(c[1], b * 256, 16), c[2] >>, 8)

\* the CRC c carried over data[lo:hi], the range halved to keep the evaluation shallow
RECURSIVE CrcRange(_, _, _, _)
CrcRange(data, lo, hi, c) ==
  IF hi <= lo THEN c
  ELSE IF hi = lo + 1 THEN CrcByte(c, ByteAt(data, lo))
  ELSE LET mid  == (lo + hi) \div 2
           left == CrcRange(data, lo, mid, c)
       IN  IF left[1] >= 0 THEN CrcRange(data, mid, hi, left) ELSE left

NewCRC32(data) == CrcRange(data, 0, data.len, AllOnes)

\* a faulty variant: the record holds the CRC of no data
WrittenMetaNoCrc(sec, data) ==
  [CRC |-> AllOnes, Size |-> U32(data.len), Written |-> PresentWritten,
   Image |-> sec.image, Purpose |-> sec.purpose, Reserved |-> 255]

WrittenMeta(sec, data) ==
  [CRC |-> NewCRC32(data), Size |-> U32(data.len), Written |-> PresentWritten,
   Image |-> sec.image, Purpose |-> sec.purpose, Reserved |-> 255]

(***************************************************************************)
(* The flash device behind the transport: 2 MiB of NOR flash. A sector     *)
(* erase sets its 4096 bytes to 0xff, a page program can only clear bits,  *)
(* both need the write-enable latch and an idle device, and the status     *)
(* register shows write-in-progress in bit 0 and the latch in bit 1.       *)
(***************************************************************************)
JedecID == << 200, 64, 21 >>

DevAccepts(dv) == dv.wel /\ ~dv.busy

DevWriteEnable(dv) == IF dv.busy THEN dv ELSE [dv EXCEPT !.wel = TRUE]

DevErase(dv, a) ==
  IF DevAccepts(dv)
  THEN LET base == a - Low(a, SectorMask)
       IN  [dv EXCEPT !.flash = RunSet(dv.flash, base, base + SectorSize, {}, "fill", << >>, romSize),
                      !.busy = TRUE]
  ELSE dv

DevProgram(dv, a, payload) ==
  IF DevAccepts(dv)
  THEN [dv EXCEPT !.flash = RunSet(dv.flash, a, a + Len(payload), a..(a + Len(payload)),
                                   "prog", payload, romSize),
                      !.busy = TRUE]
  ELSE dv

\* the device ends the operation in progress, or not yet
DevFinish(dv, fin) == IF dv.busy /\ fin THEN [dv EXCEPT !.busy = FALSE, !.wel = FALSE] ELSE dv

DevStatus(dv) == (IF dv.busy THEN 1 ELSE 0) + (IF dv.wel THEN 2 ELSE 0)

DevRead(dv, a, n) == [i \in 1..n |-> RunAt(dv.flash, a + i - 1)]

(***************************************************************************)
(* State.                                                                  *)
(*   args    the command line flags and what the environment holds for     *)
(*           them (whether the tty opens, the content of the --write file) *)
(*   idReply the device's reply to the read-JEDEC-ID command               *)
(*   pc      the position of the program                                   *)
(*   exit    how the process ended: code -1 while it runs                  *)
(*   opened  the transport has been opened (term.Open succeeded)           *)
(*   closed  the number of calls of QF.Close                               *)
(*   main    the locals of main: addr, limit, meta, d, the layout index i, *)
(*           and the section the run before this one wrote (with d)        *)
(*   w       the frame of the running (or last) QF.Write call              *)
(*   r       the frame of the running (or last) QF.Read call               *)
(*   aw      the frame of a QF.await call made on its own: mask, desired,  *)
(*           timeout (in polls), the polls made without a match, the       *)
(*           status commands sent                                          *)
(*   sp      the frame of a QF.spi call made on its own: cmds, expect, the *)
(*           arguments of the transport's Write calls, the reply bytes     *)
(*           consumed, the transport's Read calls (their number as far as *)
(*           it is counted, its parity) and the last one's result          *)
(*   polls   the polls the running await of Write has made without a match *)
(*   dev     the device: flash content, write in progress, write enable    *)
(*   hist    what went over the transport: the opcodes sent, the opcode of *)
(*           the command before the last, and the last command with the    *)
(*           device's state when it arrived and the bytes spi hands to the *)
(*           transport for it                                              *)
(***************************************************************************)
VARIABLES args, idReply, pc, exit, opened, closed, main, w, r, aw, sp, polls, dev, hist

vars == << args, idReply, pc, exit, opened, closed, main, w, r, aw, sp, polls, dev, hist >>

NoData == [len |-> 0, at |-> << >>]
Count0 == [b \in {0} |-> 0]

NoWrite ==
  [ret |-> "", start |-> 0, orig |-> NoData, address |-> 0, data |-> NoData,
   offset |-> 0, n |-> 0, err |-> "", reported |-> {}, text |-> << >>, calls |-> 0, eraseCnt |-> Count0,
   progCnt |-> Count0]

NoRead ==
  [ret |-> "", start |-> 0, len |-> 0, address |-> 0, n |-> 0, result |-> << >>,
   err |-> "", readCnt |-> Count0]

NoAwait ==
  [calls |-> 0, mask |-> 0, desired |-> 0, timeout |-> 0, polls |-> 0, sent |-> 0, err |-> "",
   text |-> << >>]

NoSpi ==
  [calls |-> 0, cmds |-> << >>, expect |-> 0, written |-> << >>, consumed |-> 0,
   resp |-> << >>, reads |-> 0, idle |-> 0, tick |-> 0, lastN |-> 0, lastErr |-> FALSE,
   err |-> ""]

NoCmd ==
  [op |-> 0, addr |-> 0, n |-> 0, expect |-> 0, payload |-> << >>, busy |-> FALSE,
   wel |-> FALSE, frame |-> << >>]

Running == [code |-> -1, reason |-> ""]

\* cmd[1..3]: the 24 address bits a command carries
CmdAddr(address) ==
  ByteOf(address, 65536) * 65536 + ByteOf(address, 256) * 256 + ByteOf(address, 1)

\* a faulty variant: the length of the reply is not limited
SpiFitsCmd(cmdLen, expect) == ~(cmdLen > SpiLimit)

\* spi refuses what the protocol cannot frame, before it writes anything
SpiFits(cmdLen, expect) == ~(expect > SpiLimit \/ cmdLen > SpiLimit)

\* a faulty variant: the loop ends with the first bytes that arrive
SpiCompleteEarly(consumed, expect) == consumed = expect \/ consumed > 0

\* for uint(consumed) != expect: the loop of spi ends
SpiComplete(consumed, expect) == consumed = expect

\* if n == 0 && err != nil: the read of the reply has failed
ReadFailed(n, err) == n = 0 /\ err

\* the bytes spi hands to the transport in one Write: req, then cmds
Frame(cmds, expect) ==
  << 1, Len(cmds) % 256, (Len(cmds) \div 256) % 256, expect % 256, (expect \div 256) % 256 >>
    \o cmds

\* the cmd slices Read, Write, await, writeEnable and reset build
Command(op, a, payload) ==
  CASE op = 11 -> << 11, ByteOf(a, 65536), ByteOf(a, 256), ByteOf(a, 1), 0 >>
    [] op = 32 -> << 32, ByteOf(a, 65536), ByteOf(a, 256), ByteOf(a, 1) >>
    [] op = 2  -> << 2, ByteOf(a, 65536), ByteOf(a, 256), ByteOf(a, 1) >> \o payload
    [] OTHER   -> << op >>

\* the record of a command that reached the device
Sent(op, a, n, expect) ==
  [hist EXCEPT !.sent = @ \cup {op},
               !.prevOp = hist.last.op,
               !.pipelined = @ \/ hist.unread,
               !.unread = FALSE,
               !.last = [op |-> op, addr |-> a, n |-> n, expect |-> expect,
                         payload |-> << >>, busy |-> dev.busy, wel |-> dev.wel,
                         frame |-> Frame(Command(op, a, << >>), expect)]]

\* spi returned from its loop with "failed to read IDs": the reply of the
\* last command was not read to its end
ReplyLost(h, lost) == [h EXCEPT !.unread = lost]

Cover(m, lo, hi) == RunSet(m, lo, hi, {}, "inc", << >>, romSize)

(***************************************************************************)
(* The ways the process ends.                                              *)
(***************************************************************************)
\* log.Fatal: os.Exit(1); deferred calls do not run
Fatal(reason) ==
  /\ pc' = "exit"
  /\ exit' = [code |-> 1, reason |-> reason]
  /\ closed' = closed

\* os.Exit(0) after a read: deferred calls do not run
ExitZero(reason) ==
  /\ pc' = "exit"
  /\ exit' = [code |-> 0, reason |-> reason]
  /\ closed' = closed

\* return from main: the deferred qf.Close() runs
Return(reason) ==
  /\ pc' = "exit"
  /\ exit' = [code |-> 0, reason |-> reason]
  /\ closed' = closed + 1

\* NewQF after a failed reset: a.Close(), then main's log.Fatalf
OpenFailed(reason) ==
  /\ pc' = "exit"
  /\ exit' = [code |-> 1, reason |-> reason]
  /\ closed' = closed + 1

(***************************************************************************)
(* Calls of QF.Read and QF.Write: the frame at entry.                      *)
(***************************************************************************)
CallRead(address, n, ret) ==
  /\ pc' = "r_enter"
  /\ r' = [NoRead EXCEPT !.ret = ret, !.start = address, !.len = n,
                         !.address = address, !.n = n]

CallWrite(address, data, ret) ==
  /\ pc' = "w_enter"
  /\ w' = [NoWrite EXCEPT !.ret = ret, !.start = address, !.orig = data,
                          !.address = address, !.data = data, !.calls = w.calls + 1]

\* a faulty variant: the record goes to the sector after the section's own
writeMetaNextSector(sec, m, ret) == CallWrite(sec.meta + SectorSize, Bytes(EncodeMeta(m)), ret)

\* writeMeta: the 12 encoded bytes go to the section's metadata sector
writeMeta(sec, m, ret) == CallWrite(sec.meta, Bytes(EncodeMeta(m)), ret)

(***************************************************************************)
(* NewQF and reset.                                                        *)
(***************************************************************************)
\* term.Open
Open ==
  /\ pc = "start"
  /\ IF args.tty
     THEN /\ opened' = TRUE
          /\ pc' = IF args.reset THEN "reset66" ELSE "wake"
          /\ UNCHANGED << exit, closed >>
     ELSE /\ Fatal("open")
          /\ UNCHANGED opened
  /\ UNCHANGED << args, aw, sp, idReply, main, w, r, polls, dev, hist >>

\* a command of reset that carries no address: spi([]byte{op}, expect)
ResetCmd(at, op, expect, next) ==
  /\ pc = at
  /\ \E ok \in BOOLEAN, lost \in BOOLEAN :
       /\ lost => ~ok /\ expect > 0
       /\ hist' = IF ok \/ expect > 0 THEN ReplyLost(Sent(op, 0, 1, expect), lost) ELSE hist
       /\ IF ok
          THEN pc' = next /\ UNCHANGED << exit, closed >>
          ELSE OpenFailed("reset")
  /\ UNCHANGED << args, aw, sp, idReply, opened, main, w, r, polls, dev >>

ResetEnable == ResetCmd("reset66", 102, 0, "reset99")
ResetDevice == ResetCmd("reset99", 153, 0, "wake")
Wake == ResetCmd("wake", 171, 1, "readid")

\* a faulty variant: only the manufacturer is compared
IdMatchesMID(b) == ~(b[1] # 200)

\* the reply b of the read-ID command is what reset accepts
IdMatches(b) == ~(b[1] # 200) /\ ~(b[2] # 64 \/ b[3] # 21)

ReadID ==
  /\ pc = "readid"
  /\ \E ok \in BOOLEAN, lost \in BOOLEAN :
       /\ lost => ~ok
       /\ hist' = ReplyLost(Sent(159, 0, 1, 3), lost)
       /\ IF ok /\ IdMatches(idReply)
          THEN pc' = "r_await" /\ UNCHANGED << exit, closed >>
          ELSE OpenFailed(IF ok THEN "id" ELSE "reset")
  /\ UNCHANGED << args, aw, sp, idReply, opened, main, w, r, polls, dev >>

\* a.await(0, 0, time.Second): any status matches
ResetAwait ==
  /\ pc = "r_await"
  /\ \E ok \in BOOLEAN, lost \in BOOLEAN :
       /\ lost => ~ok
       /\ hist' = ReplyLost(Sent(5, 0, 1, 1), lost)
       /\ IF ok /\ BitAnd(DevStatus(dev), 0, 8) = 0
          THEN CallRead(0, 16, "reset") /\ UNCHANGED << exit, closed >>
          ELSE OpenFailed("reset") /\ UNCHANGED r
  /\ UNCHANGED << args, aw, sp, idReply, opened, main, w, polls, dev >>

(***************************************************************************)
(* QF.Read.                                                                *)
(***************************************************************************)
\* Read returns an error: reset only prints it, every other caller is fatal
ReadFail(nr, err) ==
  /\ r' = [nr EXCEPT !.err = err]
  /\ CASE nr.ret = "reset" -> pc' = "main" /\ UNCHANGED << exit, closed >>
       [] nr.ret = "api"   -> pc' = "done" /\ UNCHANGED << exit, closed >>
       [] OTHER            -> Fatal("read")

\* the request is outside [0, romSize)
ReadOutside(address, n) == address < 0 \/ address + n > romSize

ReadEnter ==
  /\ pc = "r_enter"
  /\ IF ReadOutside(r.address, r.n)
     THEN ReadFail(r, "range")
     ELSE /\ pc' = IF r.n > 0 THEN "read" ELSE "r_done"
          /\ UNCHANGED << r, exit, closed >>
  /\ UNCHANGED << args, aw, sp, idReply, opened, main, w, polls, dev, hist >>

\* a faulty variant: the offset of the address in its 16-byte window is ignored
ReadDeltaNoOffset(address, n) == IF ReadChunk > n THEN n ELSE ReadChunk

\* the size of the next request: up to the next 16-byte boundary, at most n
ReadDelta(address, n) ==
  LET offset == Low(address, ReadChunk - 1)
      delta  == ReadChunk - offset
  IN  IF delta > n THEN n ELSE delta

\* one turn of the loop: spi(cmd, delta) with cmd = 0x0B and the address
ReadStep ==
  /\ pc = "read"
  /\ LET delta == ReadDelta(r.address, r.n)
         a     == CmdAddr(r.address)
     IN  IF ~SpiFits(5, delta)
         THEN ReadFail(r, "limit") /\ UNCHANGED hist
         ELSE \E ok \in BOOLEAN, lost \in BOOLEAN :
                /\ lost => ~ok
                /\ hist' = ReplyLost(Sent(11, a, 0, delta), lost)
                /\ IF ok
                   THEN /\ r' = [r EXCEPT !.address = @ + delta,
                                          !.n = @ - delta,
                                          !.result = @ \o DevRead(dev, a, delta),
                                          !.readCnt = Cover(@, a, a + delta)]
                        /\ pc' = IF r.n - delta > 0 THEN "read" ELSE "r_done"
                        /\ UNCHANGED << exit, closed >>
                   ELSE ReadFail([r EXCEPT !.readCnt = Cover(@, a, a + delta)], "spi")
  /\ UNCHANGED << args, aw, sp, idReply, opened, main, w, polls, dev >>

(***************************************************************************)
(* QF.Write.                                                               *)
(***************************************************************************)
\* the addresses the text of the error names: "address is not sector aligned:
\* 0x%06x", "sector erase at address=0x%06x", "sector erase failed for
\* address=0x%06x" and "write enable for programming failed address=0x%06x"
\* name the current address; "data write request outside", "sector erase
\* error: %v" (after either wait) and the error of spi returned as it is (the
\* program command) name none
Reported(err, address) ==
  IF err \in {"unaligned", "erase_we", "erase", "program_we"} THEN {address} ELSE {}

\* the texts of the errors the transport returns from Read and Write
TransportErrors == {"EOF", "timed out"}

\* the errors of spi on a failed Write and on a failed Read of the transport,
\* as the parts of their texts (the numbers left out)
SpiWriteErrors == {<<"failed to write enough", t>> : t \in TransportErrors}
SpiReadErrors == {<<"failed to read IDs", t>> : t \in TransportErrors}
SpiErrors == SpiWriteErrors \cup SpiReadErrors

\* the error await returns: the wrapped error of spi, or ErrTimedOut
AwaitError(err, serr) ==
  IF err = "wait_io" THEN <<"failed to read status">> \o serr ELSE <<"timed out">>

\* a faulty variant: Write does not format the error of await into its own
WaitErrorDropped(e) == <<"sector erase error">>

\* the error of Write when await failed, after the erase and after the program
WaitError(e) == <<"sector erase error">> \o e

\* the text of the error Write returns, as its parts (the numbers left out)
WriteError(err, serr) ==
  CASE err = "unaligned"  -> <<"address is not sector aligned">>
    [] err = "range"      -> <<"data write request outside">>
    [] err = "erase_we"   -> <<"sector erase at address", "write enabled failed">>
    [] err = "erase"      -> <<"sector erase failed for address">> \o serr
    [] err = "program_we" -> <<"write enable for programming failed address">>
    [] err = "program"    -> serr
    [] err \in {"wait_io", "timeout"} -> WaitError(AwaitError(err, serr))
    [] OTHER              -> << >>

\* the errors of spi a failure of Write can come from: the erase and the
\* program command expect no reply, so only the transport's Write can fail;
\* the status read fails in the Read when its reply was left unread
SpiErrorsOf(err, unread) ==
  CASE err \in {"erase", "program"} -> SpiWriteErrors
    [] err = "wait_io" -> (IF unread THEN SpiReadErrors ELSE SpiWriteErrors)
    [] OTHER -> {<< >>}

\* a faulty variant: the caller goes on as if Write had returned nil
WriteFailIgnored(nw, err) ==
  /\ w' = nw
  /\ pc' = "w_done"
  /\ UNCHANGED << exit, closed >>

\* Write returns an error: main and writeMeta end the process on it
WriteFail(nw, err) ==
  /\ \E serr \in SpiErrorsOf(err, hist'.unread) :
       w' = [nw EXCEPT !.err = err, !.reported = Reported(err, nw.address),
                       !.text = WriteError(err, serr)]
  /\ CASE nw.ret = "api"  -> pc' = "done" /\ UNCHANGED << exit, closed >>
       [] nw.ret = "data" -> Fatal("write")
       [] OTHER           -> Fatal("meta")

\* a faulty variant: the mask is 0xff
UnalignedByte(address) == Low(address, 255) # 0

Unaligned(address) == Low(address, SectorMask) # 0

\* a faulty variant: the last byte of the device is out of range
WriteOutsideLast(address, n) == address < 0 \/ address + n >= romSize

\* the request is outside [0, romSize)
WriteOutside(address, n) == address < 0 \/ address + n > romSize

\* a faulty variant: no sector is erased
WriteLoopNoErase(nw) == IF nw.n > 0 THEN "w_progWE" ELSE "w_done"

\* the top of the loop: done, or the erase of a sector, or the next program
WriteLoop(nw) ==
  IF nw.n > 0
  THEN IF Low(nw.address, SectorMask) = 0 THEN "w_eraseWE" ELSE "w_progWE"
  ELSE "w_done"

\* the alignment check, the padding and the range check
WriteEnter ==
  /\ pc = "w_enter"
  /\ IF Unaligned(w.address)
     THEN WriteFail(w, "unaligned")
     ELSE LET data == Padded(w.data)
              nw   == [w EXCEPT !.data = data, !.offset = 0, !.n = data.len]
          IN  IF WriteOutside(nw.address, nw.n)
              THEN WriteFail(nw, "range")
              ELSE /\ w' = nw
                   /\ pc' = WriteLoop(nw)
                   /\ UNCHANGED << exit, closed >>
  /\ UNCHANGED << args, aw, sp, idReply, opened, main, r, polls, dev, hist >>

\* a.writeEnable() before the erase (at = "w_eraseWE") or the program
WriteEnable(at, next, err) ==
  /\ pc = at
  /\ \E ok \in BOOLEAN :
       IF ok
       THEN /\ hist' = Sent(6, 0, 1, 0)
            /\ dev' = DevWriteEnable(dev)
            /\ pc' = next
            /\ UNCHANGED << w, exit, closed >>
       ELSE /\ WriteFail(w, err)
            /\ UNCHANGED << hist, dev >>
  /\ UNCHANGED << args, aw, sp, idReply, opened, main, r, polls >>

EraseEnable == WriteEnable("w_eraseWE", "w_erase", "erase_we")
ProgramEnable == WriteEnable("w_progWE", "w_prog", "program_we")

\* spi(cmd, 0) with cmd = 0x20 and the address of the sector
Erase ==
  /\ pc = "w_erase"
  /\ LET a    == CmdAddr(w.address)
         base == a - Low(a, SectorMask)
     IN  \E ok \in BOOLEAN :
           IF ok /\ SpiFits(4, 0)
           THEN /\ hist' = Sent(32, a, 0, 0)
                /\ dev' = DevErase(dev, a)
                /\ w' = [w EXCEPT !.eraseCnt = Cover(@, base, base + SectorSize)]
                /\ pc' = "w_eraseWait"
                /\ polls' = 0
                /\ UNCHANGED << exit, closed >>
           ELSE /\ WriteFail(w, "erase")
                /\ UNCHANGED << hist, dev, polls >>
  /\ UNCHANGED << args, aw, sp, idReply, opened, main, r >>

\* the size of the next program command
WriteDelta(n) == IF n > ProgChunk THEN ProgChunk ELSE n

\* spi(append(cmd, data[offset:offset+delta]...), 0) with cmd = 0x02 and the address
Program ==
  /\ pc = "w_prog"
  /\ LET a       == CmdAddr(w.address)
         delta   == WriteDelta(w.n)
         payload == Slice(w.data, w.offset, w.offset + delta)
     IN  \E ok \in BOOLEAN :
           IF ok /\ SpiFits(4 + delta, 0)
           THEN /\ hist' = [Sent(2, a, delta, 0) EXCEPT
                              !.last.payload = payload,
                              !.last.frame = Frame(Command(2, a, payload), 0)]
                /\ dev' = DevProgram(dev, a, payload)
                /\ w' = [w EXCEPT !.progCnt = Cover(@, a, a + delta)]
                /\ pc' = "w_progWait"
                /\ polls' = 0
                /\ UNCHANGED << exit, closed >>
           ELSE /\ WriteFail(w, "program")
                /\ UNCHANGED << hist, dev, polls >>
  /\ UNCHANGED << args, aw, sp, idReply, opened, main, r >>

Erased(nw) == nw

\* a faulty variant: the program that follows an erase is not write-enabled
ToProgramAtOnce(nw) == "w_prog"

ToProgram(nw) == "w_progWE"

\* a faulty variant: the address moves on twice as far as the data
AdvanceTwice(nw) ==
  LET delta == IF nw.n > ProgChunk THEN ProgChunk ELSE nw.n
  IN  [nw EXCEPT !.address = @ + 2 * delta, !.offset = @ + delta, !.n = @ - delta]

\* address += delta; offset += delta; n -= delta
Advance(nw) ==
  LET delta == WriteDelta(nw.n)
  IN  [nw EXCEPT !.address = @ + delta, !.offset = @ + delta, !.n = @ - delta]

\* a faulty variant: a timeout of zero is an immediate deadline
AwaitTimeoutZero(timeout) == timeout

\* if timeout == 0 { timeout = *latency }: durations are counted in polls of
\* the status register, and *latency lasts MaxPolls of them
AwaitTimeout(timeout) == IF timeout = 0 THEN MaxPolls ELSE timeout

\* the status byte ends the wait: b[0]&mask == desired
AwaitMatch(status, mask, desired) == BitAnd(status, mask, 8) = desired

\* one poll of a.await(flashWIP, 0, *latency) after an erase or a program: the
\* status read fails, or matches, or the deadline has passed, or await sleeps
\* and polls again
Await(at, erase) ==
  /\ pc = at
  /\ \E ok \in BOOLEAN, lost \in BOOLEAN, fin \in BOOLEAN, late \in BOOLEAN :
       LET ndev == DevFinish(dev, fin)
           hit  == AwaitMatch(DevStatus(ndev), flashWIP, 0)
       IN  /\ ~ok => ~fin
           /\ late = (polls >= AwaitTimeout(MaxPolls))
           /\ lost => ~ok
           /\ hist' = ReplyLost(Sent(5, 0, 1, 1), lost)
           /\ dev' = ndev
           /\ IF ~ok THEN WriteFail(w, "wait_io") /\ UNCHANGED polls
              ELSE IF hit
                   THEN /\ w' = (IF erase THEN Erased(w) ELSE Advance(w))
                        /\ pc' = (IF erase THEN ToProgram(w) ELSE WriteLoop(Advance(w)))
                        /\ polls' = 0
                        /\ UNCHANGED << exit, closed >>
                   ELSE IF late
                        THEN WriteFail(w, "timeout") /\ UNCHANGED polls
                        ELSE /\ polls' = polls + 1
                             /\ UNCHANGED << pc, w, exit, closed >>
  /\ UNCHANGED << args, aw, sp, idReply, opened, main, r >>

EraseWait == Await("w_eraseWait", TRUE)
ProgramWait == Await("w_progWait", FALSE)

(***************************************************************************)
(* main.                                                                   *)
(***************************************************************************)
\* a faulty variant: --disable is not protected
DisableAlways(protect, addr) == TRUE

\* a faulty variant: the boundary itself is protected
WriteAllowedAbove(protect, addr) == addr > protect

\* the protection check of the --disable path passes
DisableAllowed(protect, addr) == ~(protect > addr)

\* the protection check of the --write path passes
WriteAllowed(protect, addr) == ~(addr < protect)

\* the bytes of the --write file after --skip
Skipped(d, skip) == IF skip # 0 THEN SliceFrom(d, skip) ELSE d

\* main from "addr := *addrArg" to the first call that does I/O
Operate ==
  LET found == secByName(args.sect)
      sec   == found.sec
      addr  == IF args.sect # "" THEN sec.base ELSE args.addrArg
      limit == IF args.sect # "" THEN sec.limit ELSE args.limitArg
      meta  == IF args.sect # "" THEN sec.meta ELSE 0
      d     == Skipped(args.file, args.skip)
      nm    == [main EXCEPT !.addr = addr, !.limit = limit, !.meta = meta, !.sec = sec]
  IN  IF args.sect # "" /\ ~found.found
      THEN Fatal("nosection") /\ UNCHANGED << main, r, w >>
      ELSE /\ main' = IF args.wr /\ ~args.rd /\ args.fileOK /\ ~(args.skip > args.file.len)
                      THEN [nm EXCEPT !.d = d] ELSE nm
           /\ CASE args.sect # "" /\ args.disable ->
                     IF DisableAllowed(args.protect, addr)
                     THEN writeMeta(sec, DisabledMeta(sec), "disable")
                          /\ UNCHANGED << r, exit, closed >>
                     ELSE Fatal("protected") /\ UNCHANGED << r, w >>
                [] ~(args.sect # "" /\ args.disable) /\ addr >= limit ->
                     Fatal("addr_limit") /\ UNCHANGED << r, w >>
                [] ~(args.sect # "" /\ args.disable) /\ addr < limit /\ limit > romSize ->
                     Fatal("limit_rom") /\ UNCHANGED << r, w >>
                [] OTHER ->
                     IF args.rd
                     THEN /\ IF args.sect # ""
                             THEN CallRead(sec.meta, MetaLen, "rd_meta")
                             ELSE CallRead(addr, limit - addr, "rd")
                          /\ UNCHANGED << w, exit, closed >>
                     ELSE IF args.wr
                     THEN IF ~args.fileOK THEN Fatal("file") /\ UNCHANGED << r, w >>
                          ELSE IF args.skip > args.file.len
                          THEN Fatal("skip") /\ UNCHANGED << r, w >>
                          ELSE IF d.len + addr > limit
                          THEN Fatal("beyond") /\ UNCHANGED << r, w >>
                          ELSE IF ~WriteAllowed(args.protect, addr)
                          THEN Fatal("protected") /\ UNCHANGED << r, w >>
                          ELSE CallWrite(addr, d, "data") /\ UNCHANGED << r, exit, closed >>
                     ELSE Return("none") /\ UNCHANGED << r, w >>

\* main after NewQF, up to the first call that does I/O
MainDispatch ==
  /\ pc = "main"
  /\ IF args.layout
     THEN /\ CallRead(sections[1].meta, MetaLen, "layout")
          /\ main' = [main EXCEPT !.i = 1]
          /\ UNCHANGED << w, exit, closed >>
     ELSE IF args.check
     THEN IF args.sect = ""
          THEN Fatal("check_nosection") /\ UNCHANGED << main, r, w >>
          ELSE LET found == secByName(args.sect)
               IN  IF ~found.found
                   THEN Fatal("nosection") /\ UNCHANGED << main, r, w >>
                   ELSE /\ CallRead(found.sec.meta, MetaLen, "validate_meta")
                        /\ main' = [main EXCEPT !.sec = found.sec]
                        /\ UNCHANGED << w, exit, closed >>
     ELSE Operate
  /\ UNCHANGED << args, aw, sp, idReply, opened, polls, dev, hist >>

\* a faulty variant: a size one byte larger than the section passes
InvalidSizeLax(sec, m) == ~U32Fits(m.Size) \/ U32Int(m.Size) > sec.limit - sec.base + 1

\* a faulty variant: the CRCs are not compared
CrcMatchesAny(crc, m) == TRUE

\* validate: crc == meta.CRC
CrcMatches(crc, m) == crc = m.CRC

\* the declared size is larger than the section
InvalidSize(sec, m) == ~U32Fits(m.Size) \/ U32Int(m.Size) > sec.limit - sec.base

\* Read returned its bytes: the caller goes on
ReadReturn ==
  /\ pc = "r_done"
  /\ CASE r.ret = "reset" ->
            pc' = "main" /\ UNCHANGED << exit, closed, main, r >>
       [] r.ret = "api" ->
            pc' = "done" /\ UNCHANGED << exit, closed, main, r >>
       [] r.ret = "layout" ->
            IF main.i < Len(sections)
            THEN /\ CallRead(sections[main.i + 1].meta, MetaLen, "layout")
                 /\ main' = [main EXCEPT !.i = @ + 1]
                 /\ UNCHANGED << exit, closed >>
            ELSE Return("layout") /\ UNCHANGED << main, r >>
       [] r.ret = "validate_meta" ->
            LET m == DecodeMeta(r.result)
            IN  IF InvalidSize(main.sec, m)
                THEN /\ Fatal("check_size")
                     /\ main' = [main EXCEPT !.m = m]
                     /\ UNCHANGED r
                ELSE /\ CallRead(main.sec.base, U32Int(m.Size), "validate")
                     /\ main' = [main EXCEPT !.m = m]
                     /\ UNCHANGED << exit, closed >>
       [] r.ret = "validate" ->
            LET crc == NewCRC32(Bytes(r.result))
            IN  /\ IF CrcMatches(crc, main.m)
                   THEN Return("check")
                   ELSE Fatal("check_crc")
                /\ main' = [main EXCEPT !.crc = crc]
                /\ UNCHANGED r
       [] r.ret = "rd_meta" ->
            LET m      == DecodeMeta(r.result)
                limit  == IF U32Fits(m.Size) /\ main.addr + U32Int(m.Size) < main.limit
                          THEN main.addr + U32Int(m.Size) ELSE main.limit
            IN  /\ CallRead(main.addr, limit - main.addr, "rd")
                /\ main' = [main EXCEPT !.m = m, !.limit = limit]
                /\ UNCHANGED << exit, closed >>
       [] r.ret = "rd" ->
            /\ \E stored \in BOOLEAN : IF stored THEN ExitZero("read") ELSE Fatal("read_file")
            /\ UNCHANGED << main, r >>
  /\ UNCHANGED << args, aw, sp, idReply, opened, w, polls, dev, hist >>

\* Write returned nil: the caller goes on
WriteReturn ==
  /\ pc = "w_done"
  /\ CASE w.ret = "api" ->
            pc' = "done" /\ UNCHANGED << exit, closed, w >>
       [] w.ret = "data" ->
            IF main.meta # 0
            THEN /\ writeMeta(secByName(args.sect).sec,
                              WrittenMeta(secByName(args.sect).sec, main.d), "meta")
                 /\ UNCHANGED << exit, closed >>
            ELSE Return("write") /\ UNCHANGED w
       [] w.ret = "meta" ->
            Return("write") /\ UNCHANGED w
       [] w.ret = "disable" ->
            Return("disable") /\ UNCHANGED w
  /\ UNCHANGED << args, aw, sp, idReply, opened, main, r, polls, dev, hist >>

(***************************************************************************)
(* The inputs: flash images, device replies, command lines.                *)
(***************************************************************************)
Blank == [b \in {0} |-> 255]
Dirty == [b \in {0} |-> 0]

\* flash with the bytes s stored at a
Stored(flash, a, s) ==
  RunSet(flash, a, a + Len(s), a..(a + Len(s)), "put", s, romSize)

AppImage == << 1, 2, 3, 4, 5, 6, 7, 8, 9, 10, 11, 12, 13, 14, 15, 16, 17, 18, 19, 20 >>

\* a board whose app section holds a written image with its metadata
Factory ==
  LET app == sections[5]
  IN  Stored(Stored(Blank, app.base, AppImage), app.meta,
             EncodeMeta(WrittenMeta(app, Bytes(AppImage))))

\* the factory board with the size in the app metadata one more than the
\* section holds
Oversized ==
  LET app == sections[5]
  IN  Stored(Factory, app.meta + 4, LE32(U32(app.limit - app.base + 1)))

\* the factory board with one byte of the app image changed
Corrupted ==
  { Stored(Factory, sections[5].base + i, << v >>) : i \in 0..(Len(AppImage) - 1), v \in {0, 255} }

FlashImages == {Blank, Dirty, Factory, Oversized} \cup Corrupted

IdReplies == { JedecID, << 200, 65, 21 >>, << 201, 64, 21 >>, << 200, 64, 20 >> }

NoArgs ==
  [tty |-> TRUE, reset |-> FALSE, layout |-> FALSE, check |-> FALSE, disable |-> FALSE,
   sect |-> "", rd |-> FALSE, wr |-> FALSE, addrArg |-> DefaultAddr, limitArg |-> romSize,
   protect |-> DefaultProtect, skip |-> 0, fileOK |-> TRUE, file |-> NoData]

SectionArgs == {"", "bootloader", "bootfpga", "appfpga", "appffe", "app", "nosuch"}

Files == { NoData, Bytes(<< 165, 90, 90 >>) }

\* --addr, --limit, --protect of the reads that name no section
ReadRanges ==
  { << 524288, 524304, DefaultProtect >>,
    << 524301, 524336, DefaultProtect >>,
    << 524288, 524288, DefaultProtect >>,
    << 2097136, romSize, DefaultProtect >>,
    << 2097136, romSize + 1, DefaultProtect >>,
    << -16, 8, DefaultProtect >> }

\* --addr, --limit, --protect of the writes that name no section
WriteRanges ==
  { << DefaultAddr, romSize, DefaultProtect >>,
    << 524288, 524292, DefaultProtect >>,
    << 524289, romSize, DefaultProtect >>,
    << 524288, 524290, DefaultProtect >>,
    << 524288, 524288, DefaultProtect >>,
    << 2093056, romSize + 1, 2093056 >>,
    << 2093056, romSize, 2093056 >>,
    << 131072, 262144, DefaultProtect >>,
    << 131072, 262144, 131073 >>,
    << -4096, 16, -4096 >> }

Invocations ==
       { [NoArgs EXCEPT !.tty = t, !.reset = x] : t \in BOOLEAN, x \in BOOLEAN }
  \cup { [NoArgs EXCEPT !.layout = TRUE, !.check = c] : c \in BOOLEAN }
  \cup { [NoArgs EXCEPT !.check = TRUE, !.sect = n] : n \in SectionArgs }
  \cup { [NoArgs EXCEPT !.disable = TRUE, !.sect = n] : n \in SectionArgs }
  \cup { [NoArgs EXCEPT !.disable = TRUE, !.sect = "bootfpga", !.protect = p, !.wr = TRUE,
                        !.file = Bytes(<< 165, 90, 90 >>)] : p \in {0, 131072, 131073} }
  \cup { [NoArgs EXCEPT !.rd = TRUE, !.sect = n, !.wr = x] :
           n \in SectionArgs \ {""}, x \in BOOLEAN }
  \cup { [NoArgs EXCEPT !.rd = TRUE, !.addrArg = g[1], !.limitArg = g[2], !.protect = g[3]] :
           g \in ReadRanges }
  \cup { [NoArgs EXCEPT !.wr = TRUE, !.sect = n, !.file = Bytes(<< 165, 90, 90 >>)] :
           n \in SectionArgs \ {""} }
  \cup { [NoArgs EXCEPT !.wr = TRUE, !.sect = "app", !.file = f, !.skip = k, !.fileOK = x] :
           f \in Files, k \in {0, 1}, x \in BOOLEAN }
  \cup { [NoArgs EXCEPT !.wr = TRUE, !.addrArg = g[1], !.limitArg = g[2], !.protect = g[3],
                        !.file = Bytes(<< 165, 90, 90 >>), !.skip = k] :
           g \in WriteRanges, k \in {0, 4} }

\* the bytes a --read of the section would ask for, as its metadata stands
ReadSize(a, flash) ==
  LET found == secByName(a.sect)
      size  == FromLE32([i \in 1..4 |-> RunAt(flash, found.sec.meta + 4 + i - 1)], 1)
  IN  IF found.found
      THEN (IF U32Fits(size) /\ U32Int(size) < found.sec.limit - found.sec.base
            THEN U32Int(size) ELSE found.sec.limit - found.sec.base)
      ELSE 0

\* the pairs of a command line and a flash image the model runs: reads are
\* kept short, and a write runs on one image
Runs(a, flash) ==
  /\ a.rd /\ a.sect # "" => ReadSize(a, flash) <= MaxReadLen
  /\ a.wr \/ a.disable => flash = (IF a.sect = "app" THEN Factory ELSE Dirty)
  /\ flash \in {Oversized} \cup Corrupted => a.check /\ ~a.layout /\ a.sect = "app"

NoHist ==
  [sent |-> {}, prevOp |-> 0, last |-> NoCmd, unread |-> FALSE, pipelined |-> FALSE]

NoMain ==
  [addr |-> 0, limit |-> 0, meta |-> 0, d |-> NoData, i |-> 0, sec |-> NoSection,
   m |-> DecodeMeta(<< 0, 0, 0, 0, 0, 0, 0, 0, 0, 0, 0, 0 >>), crc |-> << 0, 0 >>,
   wrote |-> ""]

Init ==
  /\ args \in Invocations
  /\ idReply \in IdReplies
  /\ \E flash \in FlashImages :
       /\ Runs(args, flash)
       /\ dev = [flash |-> flash, busy |-> FALSE, wel |-> FALSE]
  /\ pc = "start"
  /\ exit = Running
  /\ opened = FALSE
  /\ closed = 0
  /\ main = NoMain
  /\ w = NoWrite
  /\ r = NoRead
  /\ aw = NoAwait
  /\ sp = NoSpi
  /\ polls = 0
  /\ hist = NoHist

\* the tool is run again on the board a section write has left, to check the
\* section or to read it back (README, "Writing a binary to a section")
FollowUp ==
  /\ pc = "exit"
  /\ exit = [code |-> 0, reason |-> "write"]
  /\ args.sect # ""
  /\ \E again \in { [NoArgs EXCEPT !.check = TRUE, !.sect = args.sect],
                    [NoArgs EXCEPT !.rd = TRUE, !.sect = args.sect] } :
       args' = again
  /\ main' = [NoMain EXCEPT !.d = main.d, !.wrote = args.sect]
  /\ dev' = [dev EXCEPT !.busy = FALSE, !.wel = FALSE]
  /\ pc' = "start"
  /\ exit' = Running
  /\ opened' = FALSE
  /\ closed' = 0
  /\ w' = NoWrite
  /\ r' = NoRead
  /\ aw' = NoAwait
  /\ sp' = NoSpi
  /\ polls' = 0
  /\ hist' = NoHist
  /\ UNCHANGED idReply

Next ==
  \/ Open
  \/ ResetEnable
  \/ ResetDevice
  \/ Wake
  \/ ReadID
  \/ ResetAwait
  \/ MainDispatch
  \/ ReadEnter
  \/ ReadStep
  \/ ReadReturn
  \/ WriteEnter
  \/ EraseEnable
  \/ Erase
  \/ EraseWait
  \/ ProgramEnable
  \/ Program
  \/ ProgramWait
  \/ WriteReturn
  \/ FollowUp

Spec == Init /\ [][Next]_vars

(***************************************************************************)
(* SpecAPI: one call of QF.Write or QF.Read on an open session, with       *)
(* arguments of every kind, those main never passes included.              *)
(***************************************************************************)
Used == Stored(Stored(Dirty, 0, AppImage), romSize - 20, AppImage)

ApiWriteAddresses ==
  { -4096, -1, 0, 1, 2048, 4095, 2093056, 2093057, romSize - 1, romSize, romSize + 4096 }

ApiData ==
  { NoData, Fill(1, 165, 165), Fill(5, 0, 255), Fill(4096, 165, 60), Fill(4097, 60, 255) }

ApiReadAddresses == { -1, 0, 5, 15, 16, 31, romSize - 20, romSize - 1, romSize }

\* the masks, values and timeouts (in polls) await is called with
ApiAwaitMasks == { 0, 1, 2, 3 }
ApiAwaitDesired == { 0, 1, 2 }
ApiAwaitTimeouts == { 0, 1, 2 }

\* a.await(mask, desired, timeout) is called, in whatever state the device is
ApiAwait ==
  /\ pc = "api"
  /\ \E mask \in ApiAwaitMasks, desired \in ApiAwaitDesired, timeout \in ApiAwaitTimeouts,
        busy \in BOOLEAN, wel \in BOOLEAN :
       /\ aw' = [NoAwait EXCEPT !.calls = 1, !.mask = mask, !.desired = desired,
                                !.timeout = timeout]
       /\ dev' = [dev EXCEPT !.busy = busy, !.wel = wel]
  /\ pc' = "a_poll"
  /\ UNCHANGED << args, sp, idReply, exit, opened, closed, main, w, r, polls, hist >>

\* one turn of the loop of that await: the status read fails, or matches, or
\* the deadline has passed, or await sleeps and polls again
AwaitPoll ==
  /\ pc = "a_poll"
  /\ \E ok \in BOOLEAN, lost \in BOOLEAN, fin \in BOOLEAN :
       LET ndev == DevFinish(dev, fin)
           hit  == AwaitMatch(DevStatus(ndev), aw.mask, aw.desired)
           late == aw.polls >= AwaitTimeout(aw.timeout)
           na   == [aw EXCEPT !.sent = @ + 1]
       IN  /\ ~ok => ~fin
           /\ lost => ~ok
           /\ hist' = ReplyLost(Sent(5, 0, 1, 1), lost)
           /\ dev' = ndev
           /\ IF ~ok THEN /\ \E serr \in (IF lost THEN SpiReadErrors ELSE SpiWriteErrors) :
                                aw' = [na EXCEPT !.err = "wait_io",
                                                 !.text = AwaitError("wait_io", serr)]
                           /\ pc' = "done"
              ELSE IF hit THEN aw' = na /\ pc' = "done"
              ELSE IF late THEN /\ aw' = [na EXCEPT !.err = "timeout",
                                                     !.text = AwaitError("timeout", << >>)]
                                /\ pc' = "done"
              ELSE aw' = [na EXCEPT !.polls = @ + 1] /\ pc' = pc
  /\ UNCHANGED << args, sp, idReply, exit, opened, closed, main, w, r, polls >>

\* the lengths of cmds and the reply lengths spi is called with
ApiSpiLens == { 0, 1, 5, 16, 17 }
ApiSpiExpects == { 0, 1, 3, 16, 17 }

\* the bytes the transport delivers, in the order they arrive
ReplyStream == [k \in 1..SpiLimit |-> 100 + k]

\* a.spi(cmds, expect) is called
ApiSpi ==
  /\ pc = "api"
  /\ \E n \in ApiSpiLens, expect \in ApiSpiExpects :
       sp' = [NoSpi EXCEPT !.calls = 1, !.cmds = [i \in 1..n |-> i], !.expect = expect]
  /\ pc' = "s_enter"
  /\ UNCHANGED << args, aw, idReply, exit, opened, closed, main, w, r, polls, dev, hist >>

\* spi up to a.t.Write(append(req, cmds...)): the limits, then one Write
SpiEnter ==
  /\ pc = "s_enter"
  /\ IF ~SpiFits(Len(sp.cmds), sp.expect)
     THEN sp' = [sp EXCEPT !.err = "limit"] /\ pc' = "done"
     ELSE \E ok \in BOOLEAN :
            /\ sp' = [sp EXCEPT !.written = Append(@, Frame(sp.cmds, sp.expect)),
                                !.err = IF ok THEN "" ELSE "write"]
            /\ pc' = IF ok /\ ~SpiComplete(0, sp.expect) THEN "s_read" ELSE "done"
  /\ UNCHANGED << args, aw, idReply, exit, opened, closed, main, w, r, polls, dev, hist >>

\* a count that stops at its largest value
UpTo(n, max) == IF n < max THEN n + 1 ELSE n

\* one turn of the loop of spi: a.t.Read(resp[consumed:expect]) returns n
\* bytes, with an error or without. The reads are counted up to the most that
\* can bring a byte plus MaxIdleReads, the reads in a row that bring nothing
\* up to MaxIdleReads; tick is the parity of the number of reads.
SpiRead ==
  /\ pc = "s_read"
  /\ \E n \in 0..(sp.expect - sp.consumed), err \in BOOLEAN :
       /\ LET got == [sp EXCEPT !.reads = UpTo(@, SpiLimit + MaxIdleReads),
                                !.tick = 1 - @, !.lastN = n, !.lastErr = err,
                                !.idle = IF n = 0 THEN UpTo(@, MaxIdleReads) ELSE 0]
          IN  IF ReadFailed(n, err)
              THEN sp' = [got EXCEPT !.err = "read"] /\ pc' = "done"
              ELSE /\ sp' = [got EXCEPT
                               !.consumed = @ + n,
                               !.resp = @ \o [i \in 1..n |-> ReplyStream[sp.consumed + i]]]
                   /\ pc' = IF SpiComplete(sp.consumed + n, sp.expect) THEN "done" ELSE pc
  /\ UNCHANGED << args, aw, idReply, exit, opened, closed, main, w, r, polls, dev, hist >>

\* a.reset() is called on the session, as NewQF calls it
ApiReset ==
  /\ pc = "api"
  /\ pc' \in {"reset66", "wake"}
  /\ UNCHANGED << args, aw, sp, idReply, exit, opened, closed, main, w, r, polls, dev, hist >>

ApiWrite ==
  /\ pc = "api"
  /\ \E address \in ApiWriteAddresses, data \in ApiData : CallWrite(address, data, "api")
  /\ UNCHANGED << args, aw, sp, idReply, exit, opened, closed, main, r, polls, dev, hist >>

ApiRead ==
  /\ pc = "api"
  /\ \E address \in ApiReadAddresses, n \in 0..MaxReadLen : CallRead(address, n, "api")
  /\ UNCHANGED << args, aw, sp, idReply, exit, opened, closed, main, w, polls, dev, hist >>

InitAPI ==
  /\ args = NoArgs
  /\ idReply = JedecID
  /\ dev = [flash |-> Used, busy |-> FALSE, wel |-> FALSE]
  /\ pc = "api"
  /\ exit = Running
  /\ opened = TRUE
  /\ closed = 0
  /\ main = NoMain
  /\ w = NoWrite
  /\ r = NoRead
  /\ aw = NoAwait
  /\ sp = NoSpi
  /\ polls = 0
  /\ hist = NoHist

NextAPI ==
  \/ ApiWrite
  \/ ApiRead
  \/ ApiAwait
  \/ AwaitPoll
  \/ ApiSpi
  \/ SpiEnter
  \/ SpiRead
  \/ ApiReset
  \/ ResetEnable
  \/ ResetDevice
  \/ Wake
  \/ ReadID
  \/ ResetAwait
  \/ ReadEnter
  \/ ReadStep
  \/ ReadReturn
  \/ WriteEnter
  \/ EraseEnable
  \/ Erase
  \/ EraseWait
  \/ ProgramEnable
  \/ Program
  \/ ProgramWait
  \/ WriteReturn

SpecAPI == InitAPI /\ [][NextAPI]_vars

\* the same, with the program running on as long as it has a step to take
SpecAPILive == SpecAPI /\ WF_vars(NextAPI)

(***************************************************************************)
(* Properties.                                                             *)
(***************************************************************************)
\* n rounded up to a multiple of the sector size
PaddedLen(n) == ((n + SectorSize - 1) \div SectorSize) * SectorSize

\* a Write call of SpecAPI has returned nil
WriteSucceeded == pc = "done" /\ w.calls > 0 /\ w.err = ""

\* the address ranges the program commands of the Write call have covered
Programmed == RunsOf(w.progCnt, {1}, romSize)

\* C1: a sector erase is addressed at the current, sector-aligned address; a
\* program command arrives at an idle device and in a sector this Write call
\* has erased; no sector is erased twice; and a Write that succeeds has erased
\* exactly the sectors of [address, address + padded length).
EraseBeforeProgram ==
  /\ hist.last.op = 32 =>
       hist.last.addr % SectorSize = 0 /\ hist.last.addr = w.address
  /\ hist.last.op = 2 =>
       RunAt(w.eraseCnt, hist.last.addr) = 1 /\ ~hist.last.busy
  /\ \A b \in DOMAIN w.eraseCnt : w.eraseCnt[b] <= 1
  /\ WriteSucceeded =>
       RunsOf(w.eraseCnt, {1}, romSize) =
         (IF w.orig.len > 0 THEN {<< w.start, w.start + PaddedLen(w.orig.len) >>} ELSE {})

\* C1 witness: a Write of two sectors has succeeded, each sector erased once
TwoSectorsErased ==
  /\ WriteSucceeded
  /\ w.orig.len = 4097
  /\ RunsOf(w.eraseCnt, {1}, romSize) = {<< 0, 8192 >>}
  /\ Programmed = {<< 0, 8192 >>}

\* C2: a program command carries 1 to 8 bytes; no address is programmed twice;
\* the programmed addresses are one range that starts at the requested address
\* and ends where the last program command ended, within the padded range: at
\* every point of a Write, so also where it aborts.
WriteOrdering ==
  /\ hist.last.op = 2 =>
       /\ hist.last.n >= 1 /\ hist.last.n <= 8
       /\ Len(hist.last.payload) = hist.last.n
       /\ Programmed # {}
  /\ \A b \in DOMAIN w.progCnt : w.progCnt[b] <= 1
  /\ Cardinality(Programmed) <= 1
  /\ \A iv \in Programmed :
       /\ iv[1] = w.start
       /\ iv[2] <= w.start + PaddedLen(w.orig.len)
       /\ iv[2] \in {w.address, w.address + 8}
       /\ hist.last.op = 2 => iv[2] = hist.last.addr + hist.last.n

\* C2 witness: a Write has aborted in its second sector, a prefix programmed
AbortedAfterPrefix ==
  /\ pc = "done"
  /\ w.err = "timeout"
  /\ w.start = 0
  /\ Programmed = {<< 0, 4104 >>}

\* C3: a Write at an address that is no multiple of 4096 fails as unaligned,
\* whatever the data, with nothing sent to the device and the flash unchanged.
UnalignedRejected ==
  (w.calls > 0 /\ pc # "w_enter" /\ w.start % 4096 # 0) =>
    /\ w.err = "unaligned"
    /\ pc = "done"
    /\ hist = NoHist
    /\ dev = [flash |-> Used, busy |-> FALSE, wel |-> FALSE]

\* C3 witness: the Write of 4097 bytes at address 4095 was rejected
UnalignedSeen ==
  pc = "done" /\ w.err = "unaligned" /\ w.start = 4095 /\ w.orig.len = 4097

\* C4: every payload byte beyond the caller's data is 0xff, and after a
\* successful Write of data whose length is no multiple of 4096 the flash holds
\* the data at [address, address+len) and 0xff up to the next sector boundary.
PaddingIsFF ==
  /\ hist.last.op = 2 =>
       \A j \in 1..Len(hist.last.payload) :
         hist.last.addr + j - 1 >= w.start + w.orig.len => hist.last.payload[j] = 255
  /\ (WriteSucceeded /\ w.orig.len % 4096 # 0) =>
       /\ \A i \in 0..(w.orig.len - 1) :
            RunAt(dev.flash, w.start + i) = ByteAt(w.orig, i)
       /\ \A a \in (w.start + w.orig.len)..(w.start + PaddedLen(w.orig.len) - 1) :
            RunAt(dev.flash, a) = 255

\* C4 witness: one byte written at the start of the last sector
OneBytePadded ==
  /\ WriteSucceeded
  /\ w.orig.len = 1
  /\ w.start = 2093056
  /\ RunAt(dev.flash, 2093056) = 165
  /\ RunAt(dev.flash, 2093057) = 255
  /\ RunAt(dev.flash, romSize - 1) = 255

\* C5: a Write at a sector-aligned address fails as out of range exactly when
\* address < 0 or address + len(data) > 2 MiB, and then nothing was sent to the
\* device and the flash is unchanged.
WriteRangeCheck ==
  (w.calls > 0 /\ pc # "w_enter" /\ w.start % 4096 = 0) =>
    /\ (w.err = "range") = (w.start < 0 \/ w.start + w.orig.len > 2097152)
    /\ w.err = "range" =>
         /\ pc = "done"
         /\ hist = NoHist
         /\ dev = [flash |-> Used, busy |-> FALSE, wel |-> FALSE]

\* C5 witness: 4097 bytes at the last sector are out of range, and the Write of
\* the case next to it (4096 bytes at the last sector) is the C4, C1 runs
RangeRejected ==
  pc = "done" /\ w.err = "range" /\ w.start = 2093056 /\ w.orig.len = 4097

\* the address ranges the requests of the Read call have covered
Requested == RunsOf(r.readCnt, {1}, romSize)

\* C6: a Read inside the device is not rejected; each request asks for
\* min(16 - address mod 16, remaining) bytes, 1 to 16, within one 16-byte
\* window, not below the start; the requests cover one range that starts at
\* the requested address and ends where the last request ended; and the result
\* of a Read that succeeds is the length bytes of the flash, in order.
ReadChunking ==
  /\ (r.ret = "api" /\ pc # "r_enter" /\ 0 <= r.start /\ r.start + r.len <= 2097152) =>
       r.err # "range"
  /\ hist.last.op = 11 =>
       LET a         == hist.last.addr
           e         == hist.last.expect
           remaining == r.len - (a - r.start)
           window    == 16 - (a % 16)
       IN  /\ e = (IF window < remaining THEN window ELSE remaining)
           /\ 1 <= e /\ e <= 16
           /\ a \div 16 = (a + e - 1) \div 16
           /\ a >= r.start
           /\ \A iv \in Requested : iv[2] = a + e
           /\ Requested # {}
  /\ \A b \in DOMAIN r.readCnt : r.readCnt[b] <= 1
  /\ Cardinality(Requested) <= 1
  /\ \A iv \in Requested : iv[1] = r.start
  /\ (pc = "done" /\ r.ret = "api" /\ r.err = "") =>
       /\ Len(r.result) = r.len
       /\ \A i \in 1..r.len : r.result[i] = RunAt(dev.flash, r.start + i - 1)
       /\ Requested = (IF r.len > 0 THEN {<< r.start, r.start + r.len >>} ELSE {})

\* C6 witness: 35 bytes read from address 5, in three requests' windows
UnalignedReadDone ==
  /\ pc = "done" /\ r.ret = "api" /\ r.err = ""
  /\ r.start = 5 /\ r.len = 35
  /\ Len(r.result) = 35
  /\ hist.last.addr = 32 /\ hist.last.expect = 8

\* the start address main works on
StartOf == IF args.sect # "" THEN secByName(args.sect).sec.base ELSE args.addrArg

\* the invocation is a data write, or the disable of a section
IsDataWrite ==
  args.wr /\ ~args.rd /\ ~args.layout /\ ~args.check /\ ~(args.sect # "" /\ args.disable)
IsDisable ==
  args.disable /\ secByName(args.sect).found /\ ~args.layout /\ ~args.check

\* the write-enable, erase and program commands sent so far
Mutating == hist.sent \cap {6, 32, 2}

\* C7: a data write or a disable whose start address is below the boundary
\* sends no write-enable, erase or program command; the program ends on the
\* protection check only for an address below the boundary and calls Write
\* only for one at or above it; the default boundary rejects bootloader and
\* bootfpga and does not reject appfpga, appffe and app.
ProtectionGate ==
  /\ ((IsDataWrite \/ IsDisable) /\ StartOf < args.protect) =>
       Mutating = {} /\ w.calls = 0
  /\ exit.reason = "protected" => StartOf < args.protect
  /\ w.calls > 0 => StartOf >= args.protect
  /\ (args.protect = 262144 /\ args.sect \in {"bootloader", "bootfpga"}) =>
       Mutating = {} /\ w.calls = 0
  /\ (args.protect = 262144 /\ args.sect \in {"appfpga", "appffe", "app"}) =>
       exit.reason # "protected"

\* C7 witness: the write of bootfpga was rejected, nothing sent
BootfpgaWriteRejected ==
  /\ pc = "exit" /\ exit.reason = "protected"
  /\ args.sect = "bootfpga" /\ args.wr /\ ~args.disable
  /\ Mutating = {}

\* C8 as claimed: no erase or program command is addressed below the boundary.
NoCommandBelowBoundary ==
  hist.last.op \in {32, 2} => hist.last.addr >= args.protect

\* C8 as amended: the erase and program commands of a data Write are addressed
\* at or above the boundary; one addressed below it belongs to the Write of the
\* metadata record of the chosen section, into that section's metadata sector,
\* and the base of that section is at or above the boundary.
ProtectionOfData ==
  hist.last.op \in {32, 2} =>
    \/ w.ret = "data" /\ hist.last.addr >= args.protect
    \/ /\ w.ret \in {"meta", "disable"}
       /\ secByName(args.sect).found
       /\ secByName(args.sect).sec.base >= args.protect
       /\ hist.last.addr >= secByName(args.sect).sec.meta
       /\ hist.last.addr < secByName(args.sect).sec.meta + 4096

\* C8 witness: the metadata of app is programmed, below the boundary
MetaProgrammedBelow ==
  /\ hist.last.op = 2
  /\ w.ret = "meta"
  /\ args.sect = "app"
  /\ hist.last.addr < args.protect

\* C9: past NewQF the ID reply was 0xC8,0x40,0x15; with any other reply no
\* read, erase or program command is ever sent, and the program ends with the
\* open failed and the transport closed.
SessionIdentity ==
  /\ pc \notin {"start", "reset66", "reset99", "wake", "readid", "exit"} =>
       idReply = << 200, 64, 21 >>
  /\ idReply # << 200, 64, 21 >> =>
       /\ hist.sent \cap {11, 32, 2} = {}
       /\ pc = "exit" => exit.code = 1 /\ exit.reason \in {"open", "reset", "id"}
       /\ (pc = "exit" /\ opened) => closed = 1

\* C9 witness: the device answered 0xC8,0x41,0x15 and the open failed
WrongDeviceRefused ==
  /\ pc = "exit" /\ exit.reason = "id"
  /\ idReply = << 200, 65, 21 >>
  /\ 159 \in hist.sent
  /\ closed = 1

\* C10 as claimed: when the program has ended after opening the transport,
\* Close has been called exactly once.
ClosedExactlyOnce ==
  (pc = "exit" /\ opened) => closed = 1

\* the invocation is a --check of a section of the layout
CheckRun == args.check /\ ~args.layout /\ secByName(args.sect).found
CheckSec == secByName(args.sect).sec

\* byte k of the metadata record the flash holds for the checked section
MetaByte(k) == RunAt(dev.flash, CheckSec.meta + k)

\* the size that record declares is larger than the section; its value when
\* it is not
StoredSizeTooLarge ==
  \/ MetaByte(7) > 0
  \/ MetaByte(6) * 65536 + MetaByte(5) * 256 + MetaByte(4) > CheckSec.limit - CheckSec.base
StoredSize == MetaByte(6) * 65536 + MetaByte(5) * 256 + MetaByte(4)
StoredCRC == << MetaByte(3) * 256 + MetaByte(2), MetaByte(1) * 256 + MetaByte(0) >>

\* C11: when the size in the metadata record of the checked section exceeds
\* limit - base, validate never reads the data area: the read requests of the
\* check lie in the 12 bytes of the record, and once the record is read the
\* check fails with the invalid-size error.
ValidateInvalidSize ==
  (CheckRun /\ StoredSizeTooLarge) =>
    /\ r.ret # "validate"
    /\ r.ret = "validate_meta" =>
         \A iv \in Requested : iv[1] >= CheckSec.meta /\ iv[2] <= CheckSec.meta + 12
    /\ (pc = "exit" /\ r.ret = "validate_meta" /\ r.err = "") =>
         exit = [code |-> 1, reason |-> "check_size"]
    /\ exit.reason \notin {"check", "check_crc"}

\* C11 witness: the app record declares one byte more than the section holds
OversizedRejected ==
  /\ pc = "exit" /\ exit.reason = "check_size"
  /\ dev.flash = Oversized
  /\ Requested = {<< 77824, 77836 >>}

\* C12: when the declared size fits the section, validate reads the bytes
\* [base, base+size) and nothing else of the data area, succeeds exactly when
\* their CRC is the stored one, and otherwise fails as a mismatch with the
\* computed and the stored CRC at hand; the factory image passes and every
\* image with one byte changed fails.
ValidateChecksum ==
  (CheckRun /\ ~StoredSizeTooLarge) =>
    /\ exit.reason # "check_size"
    /\ exit.reason \in {"check", "check_crc"} => r.ret = "validate" /\ r.err = ""
    /\ r.ret = "validate" =>
         /\ r.start = CheckSec.base /\ r.len = StoredSize
         /\ \A iv \in Requested :
              iv[1] >= CheckSec.base /\ iv[2] <= CheckSec.base + StoredSize
    /\ (pc = "exit" /\ r.ret = "validate" /\ r.err = "") =>
         LET crc == NewCRC32(Bytes(DevRead(dev, CheckSec.base, StoredSize)))
         IN  /\ Requested = (IF StoredSize > 0
                             THEN {<< CheckSec.base, CheckSec.base + StoredSize >>} ELSE {})
             /\ (exit = [code |-> 0, reason |-> "check"]) = (crc = StoredCRC)
             /\ crc # StoredCRC =>
                  /\ exit = [code |-> 1, reason |-> "check_crc"]
                  /\ main.crc = crc /\ main.m.CRC = StoredCRC
             /\ dev.flash = Factory => exit.code = 0
             /\ dev.flash \in Corrupted => exit.reason = "check_crc"

\* C12 witness: the last byte of the app image was changed and the check failed
CorruptionDetected ==
  /\ pc = "exit" /\ exit.reason = "check_crc"
  /\ dev.flash = Stored(Factory, 524288 + 19, << 0 >>)
  /\ Requested = {<< 524288, 524308 >>}

\* the invocation writes a file to a section of the layout
SectionWrite == IsDataWrite /\ secByName(args.sect).found

\* the flash a write or a disable starts on
InitialFlash == IF args.sect = "app" THEN Factory ELSE Dirty

\* the 12 bytes at the metadata offset of the chosen section
RecordIn(flash) == [k \in 1..12 |-> RunAt(flash, secByName(args.sect).sec.meta + k - 1)]

\* C13: only a section write and a disable send write-enable, erase or program
\* commands for a metadata record. The metadata Write of a section write
\* starts, at the metadata offset, as the second Write and with the data in
\* the flash; while the data Write runs, and after it failed, no erase or
\* program command addresses the metadata sector and the record is as it was.
\* With the boundary at or above 0x20000 no other Write addresses the sectors
\* 0x10000..0x1ffff, which hold the records.
MetadataLifecycle ==
  /\ ~(IsDataWrite \/ IsDisable) => Mutating = {} /\ w.calls = 0
  /\ w.ret = "disable" => IsDisable /\ w.start = secByName(args.sect).sec.meta
  /\ w.ret = "meta" =>
       /\ SectionWrite
       /\ w.calls = 2
       /\ w.start = secByName(args.sect).sec.meta
       /\ \A i \in 0..(main.d.len - 1) :
            RunAt(dev.flash, secByName(args.sect).sec.base + i) = ByteAt(main.d, i)
  /\ (SectionWrite /\ w.ret # "meta") =>
       /\ RecordIn(dev.flash) = RecordIn(InitialFlash)
       /\ hist.last.op \in {32, 2} =>
            \/ hist.last.addr < secByName(args.sect).sec.meta
            \/ hist.last.addr >= secByName(args.sect).sec.meta + 4096
  /\ (args.protect >= 131072 /\ hist.last.op \in {32, 2}
        /\ hist.last.addr >= 65536 /\ hist.last.addr < 131072) =>
       w.ret \in {"meta", "disable"}

\* C13 witness: the write of the app section timed out after a program
\* command, and the record of the image that was there is still stored
FailedWriteKeepsRecord ==
  /\ pc = "exit" /\ exit.reason = "write"
  /\ args.sect = "app" /\ w.ret = "data" /\ w.err = "timeout"
  /\ Programmed # {}
  /\ RecordIn(dev.flash) = EncodeMeta(WrittenMeta(sections[5], Bytes(AppImage)))

\* the section a run wrote, or the run before it
Written == secByName(IF main.wrote # "" THEN main.wrote ELSE args.sect).sec

\* C14: when a section write has succeeded, the flash holds the data at the
\* base of the section and a record with the CRC of the data, its unpadded
\* length, presence 0x03, the image and purpose of the layout and 0xff; a
\* check that follows succeeds unless its I/O fails, and a read of the section
\* that follows returns the data.
RoundTrip ==
  /\ ((pc = "exit" /\ SectionWrite /\ exit = [code |-> 0, reason |-> "write"])
        \/ main.wrote # "") =>
       /\ DevRead(dev, Written.base, main.d.len) = [i \in 1..main.d.len |-> ByteAt(main.d, i - 1)]
       /\ [k \in 1..12 |-> RunAt(dev.flash, Written.meta + k - 1)] =
            LE32(NewCRC32(main.d)) \o LE32(U32(main.d.len))
              \o << 3, Written.image, Written.purpose, 255 >>
       /\ main.d.len <= Written.limit - Written.base
       /\ Written.base >= DefaultProtect
  /\ (main.wrote # "" /\ args.check /\ pc = "exit") =>
       \/ exit = [code |-> 0, reason |-> "check"]
       \/ exit.reason \in {"reset", "read"}
  /\ (main.wrote # "" /\ args.rd /\ r.ret = "rd" /\ r.err = "" /\ pc \in {"r_done", "exit"}) =>
       /\ r.start = Written.base
       /\ r.result = [i \in 1..main.d.len |-> ByteAt(main.d, i - 1)]

\* C14 witness: the three bytes a5 5a 5a were written to app, with the CRC
\* 0x4a2de728 in the record, and the check that followed has passed
WrittenThenChecked ==
  /\ main.wrote = "app" /\ args.check
  /\ pc = "exit" /\ exit = [code |-> 0, reason |-> "check"]
  /\ main.d.len = 3
  /\ DevRead(dev, 524288, 3) = << 165, 90, 90 >>
  /\ [k \in 1..12 |-> RunAt(dev.flash, 77824 + k - 1)] =
       << 40, 231, 45, 74, 3, 0, 0, 0, 3, 1, 2, 255 >>

\* an await is polling
Waiting == pc \in {"a_poll", "w_eraseWait", "w_progWait"}

\* the polls the await call allows before its deadline has passed
Deadline == IF aw.timeout = 0 THEN MaxPolls ELSE aw.timeout

\* the status the device shows satisfies status & mask == desired
StatusMatches ==
  LET busy == IF dev.busy THEN 1 ELSE 0
      wel  == IF dev.wel THEN 1 ELSE 0
  IN  ((busy * (aw.mask % 2)) + 2 * (wel * ((aw.mask \div 2) % 2))) = aw.desired

\* what holds of await in every state
AwaitSafety ==
  /\ hist.last.op = 5 => hist.last.n = 1 /\ hist.last.expect = 1
  /\ aw.calls > 0 =>
       /\ aw.sent <= Deadline + 1
       /\ pc = "a_poll" => aw.sent = aw.polls
       /\ (pc = "a_poll" /\ aw.sent > 0) => ~StatusMatches
       /\ (pc = "done" /\ aw.err = "") => StatusMatches /\ aw.sent = aw.polls + 1
       /\ (pc = "done" /\ aw.err = "timeout") => ~StatusMatches /\ aw.sent = Deadline + 1
       /\ pc = "done" => hist.last.op = 5
  /\ (pc \in {"w_eraseWait", "w_progWait"} /\ hist.last.op = 5) => dev.busy
  /\ w.err = "timeout" => hist.last.op = 5 /\ dev.busy /\ polls = MaxPolls
  /\ polls <= MaxPolls

\* C15: await sends one status read with a 1-byte reply per poll, goes on
\* polling only while the status polled last does not match, returns nil with
\* the first status that matches, returns the timeout error with the poll
\* after the deadline (the default latency when the timeout is zero) and,
\* every status read returning, always returns.
AwaitCompletes == []AwaitSafety /\ (Waiting ~> ~Waiting)

\* C15 witness: await(1, 0, 0) on a device that stays busy timed out after
\* the polls of the default latency
DefaultLatencyTimedOut ==
  /\ pc = "done" /\ aw.calls > 0
  /\ aw.mask = 1 /\ aw.desired = 0 /\ aw.timeout = 0
  /\ aw.err = "timeout"
  /\ aw.sent = MaxPolls + 1
  /\ dev.busy

\* the length of the cmds slice of each command of the tool
CmdLenOf(op, n) ==
  CASE op = 11 -> 5
    [] op = 32 -> 4
    [] op = 2  -> 4 + n
    [] OTHER   -> 1

\* C16: spi called with more than 16 bytes of cmds or for more than 16 bytes
\* of reply fails with the limit error, nothing handed to the transport; any
\* other call hands the transport, in one Write, the header 0x01, len(cmds)
\* and expect as 16-bit little-endian numbers, and cmds. The commands of Read,
\* Write, await, writeEnable and reset are within the limits and framed so.
FramerLimits ==
  /\ (sp.calls > 0 /\ pc # "s_enter") =>
       IF Len(sp.cmds) > 16 \/ sp.expect > 16
       THEN sp.err = "limit" /\ sp.written = << >> /\ sp.reads = 0 /\ pc = "done"
       ELSE /\ sp.err # "limit"
            /\ sp.written = << << 1, Len(sp.cmds), 0, sp.expect, 0 >> \o sp.cmds >>
  /\ hist.last.op # 0 =>
       /\ hist.last.op \in {102, 153, 171, 159, 5, 6, 11, 32, 2}
       /\ hist.last.expect <= 16
       /\ CmdLenOf(hist.last.op, hist.last.n) <= 16
       /\ Len(hist.last.frame) = 5 + CmdLenOf(hist.last.op, hist.last.n)
       /\ SubSeq(hist.last.frame, 1, 6) =
            << 1, CmdLenOf(hist.last.op, hist.last.n), 0, hist.last.expect, 0, hist.last.op >>
       /\ hist.last.op = 2 => SubSeq(hist.last.frame, 10, Len(hist.last.frame)) = hist.last.payload
       /\ hist.last.op \in {11, 32, 2} =>
            hist.last.frame[7] * 65536 + hist.last.frame[8] * 256 + hist.last.frame[9]
              = hist.last.addr

\* C16 witness: 16 bytes of cmds for 17 bytes of reply were refused
ReplyTooLong ==
  /\ pc = "done" /\ sp.calls > 0
  /\ Len(sp.cmds) = 16 /\ sp.expect = 17
  /\ sp.err = "limit"
  /\ sp.written = << >>

\* C17: the reply spi has collected is the bytes that arrived, in their order;
\* spi reads on while it has fewer than expect, returns nil only with exactly
\* expect bytes, and returns the read error exactly when a read gave no byte
\* and an error.
ReplyCollection ==
  sp.calls > 0 =>
    /\ sp.consumed <= sp.expect
    /\ sp.resp = SubSeq(ReplyStream, 1, sp.consumed)
    /\ pc = "s_read" => sp.consumed < sp.expect /\ sp.err = ""
    /\ (pc = "done" /\ sp.err = "") =>
         /\ sp.consumed = sp.expect
         /\ Len(sp.resp) = sp.expect
         /\ sp.expect = 0 => sp.reads = 0
    /\ sp.err = "read" => sp.lastN = 0 /\ sp.lastErr /\ sp.consumed < sp.expect
    /\ (sp.reads > 0 /\ sp.lastN = 0 /\ sp.lastErr) => sp.err = "read" /\ pc = "done"

\* C17 witness: three bytes arrived one by one, the last with an error, and
\* spi returned them
PartialReadsCollected ==
  /\ pc = "done" /\ sp.err = ""
  /\ sp.expect = 3 /\ sp.reads = 3
  /\ sp.lastN = 1 /\ sp.lastErr
  /\ sp.resp = << 101, 102, 103 >>

\* C18 as claimed: the error of a Write that failed part-way names the address
\* at which it failed.
FailureNamesAddress ==
  w.err \in {"erase_we", "erase", "program_we", "program", "wait_io", "timeout"} =>
    w.reported = {w.address}

\* C19: an erase or a program command follows a write-enable command at once
\* and finds the latch set; no write-enable follows a write-enable; Write is
\* about to send an erase or a program only right after a write-enable, a
\* write-enable is left without its command only when sending that command
\* failed, and after a failed write-enable nothing more is sent.
WriteEnableLatch ==
  /\ hist.last.op \in {32, 2} => hist.prevOp = 6 /\ hist.last.wel
  /\ hist.last.op = 6 => hist.prevOp # 6
  /\ pc \in {"w_erase", "w_prog"} => hist.last.op = 6
  /\ (hist.last.op = 6 /\ pc \notin {"w_erase", "w_prog"}) => w.err \in {"erase", "program"}
  /\ w.err \in {"erase_we", "program_we"} => pc = "done" /\ hist.last.op \notin {6, 32, 2}

\* C19 witness: the second program command of a Write, after its write-enable
SecondProgramEnabled ==
  /\ hist.last.op = 2 /\ hist.last.addr = 8
  /\ hist.prevOp = 6
  /\ hist.last.wel
  /\ pc = "w_progWait"

\* what a caller of await reads from its error
AwaitCause(text) ==
  IF text = <<"timed out">> THEN "timeout"
  ELSE IF Len(text) > 0 /\ text[1] = "failed to read status" THEN "io"
  ELSE "other"

\* what a caller of Write reads from its error
WriteCause(text) ==
  IF Len(text) > 0 /\ text[1] = "sector erase error" THEN AwaitCause(Tail(text))
  ELSE "other"

\* C20: a failed status read ends await, and the Write that waits, with that
\* poll as the last command sent, whatever is left of the deadline; the error
\* of await and the error of Write read as an I/O failure exactly when the
\* status read failed and as a timeout exactly when the deadline passed.
StatusReadFailure ==
  /\ aw.err = "wait_io" => pc = "done" /\ hist.last.op = 5 /\ aw.sent = aw.polls + 1
  /\ w.err = "wait_io" => pc = "done" /\ hist.last.op = 5 /\ polls <= MaxPolls
  /\ (AwaitCause(aw.text) = "io") = (aw.err = "wait_io")
  /\ (AwaitCause(aw.text) = "timeout") = (aw.err = "timeout")
  /\ (WriteCause(w.text) = "io") = (w.err = "wait_io")
  /\ (WriteCause(w.text) = "timeout") = (w.err = "timeout")

\* C20 witness: the first status read after an erase fails with a transport
\* error whose own text is "timed out", and Write reports it as a read failure
StatusReadFailedAtOnce ==
  /\ w.err = "wait_io" /\ polls = 0 /\ pc = "done"
  /\ w.eraseCnt # Count0 /\ w.progCnt = Count0
  /\ w.text = <<"sector erase error", "failed to read status", "failed to read IDs", "timed out">>

\* C21: no command is written to the transport while the reply of an earlier
\* command of the session has not been read to its end.
NoPipelining == ~hist.pipelined

\* the flash contents f and g agree on lo..hi-1
SameOn(f, g, lo, hi) ==
  \A a \in {lo} \cup {b \in DOMAIN f \cup DOMAIN g : lo <= b /\ b < hi} :
    lo < hi => RunAt(f, a) = RunAt(g, a)

\* the section a disable names
Disabled == secByName(args.sect).sec

\* C22: a disable sends erase and program commands only into the metadata
\* sector of its section and leaves every byte outside that sector, the data
\* of the section included, as it was; when it has succeeded the base of the
\* section is at or above the boundary, the record is nine bytes 0xff, the
\* image and purpose of the layout and 0xff, and the rest of the sector is
\* erased.
DisableEffect ==
  IsDisable =>
    /\ hist.last.op \in {32, 2} =>
         /\ hist.last.addr >= Disabled.meta
         /\ hist.last.addr + hist.last.n <= Disabled.meta + SectorSize
    /\ SameOn(dev.flash, InitialFlash, Disabled.base, Disabled.limit)
    /\ SameOn(dev.flash, InitialFlash, 0, Disabled.meta)
    /\ SameOn(dev.flash, InitialFlash, Disabled.meta + SectorSize, romSize)
    /\ (pc = "exit" /\ exit.code = 0) =>
         /\ exit.reason = "disable"
         /\ Disabled.base >= args.protect
         /\ RecordIn(dev.flash) =
              << 255, 255, 255, 255, 255, 255, 255, 255, 255,
                 Disabled.image, Disabled.purpose, 255 >>
         /\ SameOn(dev.flash, Blank, Disabled.meta + MetaLen, Disabled.meta + SectorSize)

\* C22 witness: app was disabled on the factory board; its record was
\* rewritten and its image is still there
AppDisabled ==
  /\ pc = "exit" /\ exit.reason = "disable"
  /\ args.sect = "app"
  /\ RecordIn(InitialFlash) # RecordIn(dev.flash)
  /\ RecordIn(dev.flash) = << 255, 255, 255, 255, 255, 255, 255, 255, 255, 1, 2, 255 >>
  /\ [i \in 1..20 |-> RunAt(dev.flash, 524288 + i - 1)] = AppImage

\* the sector the metadata record of a section lies in
MetaSector(sec) == << sec.meta - Low(sec.meta, SectorMask), sec.meta - Low(sec.meta, SectorMask) + SectorSize >>

\* the intervals <<lo, hi>> of addresses do not meet
Apart(x, y) == x[2] <= y[1] \/ y[2] <= x[1]

\* the layout: every data range is not empty and within the flash, the data
\* ranges are pairwise apart, every metadata offset starts a sector, the
\* metadata sectors are pairwise apart and apart from every data range
LayoutSound ==
  /\ \A i \in 1..Len(sections) :
       /\ 0 <= sections[i].base /\ sections[i].base < sections[i].limit
       /\ sections[i].limit <= romSize
       /\ Low(sections[i].meta, SectorMask) = 0
       /\ MetaSector(sections[i])[2] <= romSize
  /\ \A i \in 1..Len(sections), j \in 1..Len(sections) :
       /\ i # j => Apart(<< sections[i].base, sections[i].limit >>,
                         << sections[j].base, sections[j].limit >>)
       /\ i # j => Apart(MetaSector(sections[i]), MetaSector(sections[j]))
       /\ Apart(MetaSector(sections[i]), << sections[j].base, sections[j].limit >>)

\* C23: the layout is sound, and while and after main writes the metadata record
\* of a section (after the data, or to disable it) the erase and program
\* commands of that Write cover nothing outside the section's metadata sector,
\* the metadata sectors and the data of the other four sections are as they
\* were at the start of the program, and the data of the section itself is as
\* the data Write left it (the file, 0xff up to the end of its last sector,
\* the rest as at the start) or, for a disable, as at the start.
MetadataIsolation ==
  /\ LayoutSound
  /\ w.ret \in {"meta", "disable"} =>
       LET sec == secByName(args.sect).sec
           len == IF w.ret = "meta" THEN main.d.len ELSE 0
       IN  /\ RunsOf(w.eraseCnt, {1, 2}, romSize) \subseteq {MetaSector(sec)}
           /\ \A run \in RunsOf(w.progCnt, {1, 2}, romSize) :
                MetaSector(sec)[1] <= run[1] /\ run[2] <= MetaSector(sec)[2]
           /\ \A j \in 1..Len(sections) :
                sections[j].name # sec.name =>
                  /\ SameOn(dev.flash, InitialFlash, sections[j].base, sections[j].limit)
                  /\ SameOn(dev.flash, InitialFlash,
                            MetaSector(sections[j])[1], MetaSector(sections[j])[2])
           /\ \A i \in 0..(len - 1) : RunAt(dev.flash, sec.base + i) = ByteAt(main.d, i)
           /\ SameOn(dev.flash, Blank, sec.base + len, sec.base + PaddedLen(len))
           /\ SameOn(dev.flash, InitialFlash, sec.base + PaddedLen(len), sec.limit)

\* C23 witness: the record of appfpga was written after its data on a board
\* full of zeroes; its metadata sector was erased and programmed, the sectors
\* of bootfpga before it and of appffe after it still hold zeroes
OneRecordWritten ==
  /\ pc = "exit" /\ exit.reason = "write"
  /\ args.sect = "appfpga" /\ w.ret = "meta"
  /\ RunsOf(w.eraseCnt, {1}, romSize) = {<< 69632, 73728 >>}
  /\ RunsOf(w.progCnt, {1}, romSize) = {<< 69632, 73728 >>}
  /\ RunAt(dev.flash, 69632 + 8) = PresentWritten
  /\ RunAt(dev.flash, 69631) = 0 /\ RunAt(dev.flash, 73728) = 0

\* C24: the erase and program commands of the data Write that main starts
\* cover no address outside [addr, limit).
LimitContainment ==
  w.ret = "data" =>
    \A run \in RunsOf(w.eraseCnt, {1, 2}, romSize) \cup RunsOf(w.progCnt, {1, 2}, romSize) :
      main.addr <= run[1] /\ run[2] <= main.limit

\* C25: a call of spi that has begun to read its reply returns.
SpiReturns == (pc = "s_read") ~> (pc = "done")

=============================================================================
